---- MODULE Spec2Model ----
(***************************************************************************)
(* Maneuver planning and execution engine of rpo-r3f-demo: the leg planner *)
(* (waypointManeuvers.ts), the targeting solver (maneuvers.ts), the        *)
(* maneuver queue hook (useManeuverQueue.ts), the simulation clock         *)
(* (useSimulationTime.ts, time.ts) and the App component that drives them. *)
(*                                                                         *)
(* Numbers.  JavaScript numbers are modelled as exact rationals <<n, d>>   *)
(* (d >= 1, lowest terms): positions, velocities and matrix entries.       *)
(* Times and phases are whole seconds (integers): a transfer time is cut   *)
(* to the whole second below it.                                           *)
(***************************************************************************)
EXTENDS Integers, Sequences, FiniteSets, TLC

(***************************************************************************)
(* Rational arithmetic (the arithmetic of JS numbers, idealised).          *)
(***************************************************************************)
Abs(n) == IF n < 0 THEN -n ELSE n

RECURSIVE GCD(_, _)
GCD(a, b) == IF b = 0 THEN a ELSE GCD(b, a % b)

\* A value computed once and then named, as a const of the source is.
Const(value, Body(_)) == CHOOSE r \in {Body(x) : x \in {value}} : TRUE

QReduce(n, d, g) ==
  IF d < 0 THEN <<(-n) \div g, (-d) \div g>> ELSE <<n \div g, d \div g>>
QNorm(n, d) ==
  IF n = 0 THEN <<0, 1>> ELSE QReduce(n, d, GCD(Abs(n), Abs(d)))

Q(n) == <<n, 1>>
QZero == <<0, 1>>
QNeg(a) == <<-a[1], a[2]>>
\* a + b over the common denominator l.
QAddOver(a, b, l) == QNorm(a[1] * (l \div a[2]) + b[1] * (l \div b[2]), l)
QAdd(a, b) ==
  IF a[2] = b[2] THEN
    IF a[2] = 1 THEN <<a[1] + b[1], 1>> ELSE QNorm(a[1] + b[1], a[2])
  ELSE QAddOver(a, b, (a[2] \div GCD(a[2], b[2])) * b[2])
QSub(a, b) == QAdd(a, QNeg(b))
\* Cross-cancelled before multiplying, so that no product is larger than
\* the result needs.
QTimes(x, y) == <<x[1] * y[1], x[2] * y[2]>>
QMul(a, b) ==
  IF a[1] = 0 \/ b[1] = 0 THEN <<0, 1>>
  ELSE IF a[2] = 1 /\ b[2] = 1 THEN <<a[1] * b[1], 1>>
  ELSE QTimes(QNorm(a[1], b[2]), QNorm(b[1], a[2]))
QInv(a) == IF a[1] < 0 THEN <<-a[2], -a[1]>> ELSE <<a[2], a[1]>>
QDiv(a, b) == QMul(a, QInv(b))
\* a < b: whole parts first, so that a small tolerance meets no large product.
QLt(a, b) ==
  IF a[1] \div a[2] # b[1] \div b[2] THEN a[1] \div a[2] < b[1] \div b[2]
  ELSE (a[1] % a[2]) * b[2] < (b[1] % b[2]) * a[2]
QAbs(a) == <<Abs(a[1]), a[2]>>
QFloor(a) == a[1] \div a[2]

\* Math.sqrt, cut to the whole number below it.
\* lo <= sqrt(n) < hi, by bisection.
RECURSIVE SqrtBetween(_, _, _)
SqrtBetween(n, lo, hi) ==
  IF hi - lo <= 1 THEN lo
  ELSE IF ((lo + hi) \div 2) * ((lo + hi) \div 2) <= n
       THEN SqrtBetween(n, (lo + hi) \div 2, hi)
       ELSE SqrtBetween(n, lo, (lo + hi) \div 2)
ISqrt(n) == SqrtBetween(n, 0, IF n < 46340 THEN n + 1 ELSE 46341)

Max(a, b) == IF a < b THEN b ELSE a

(***************************************************************************)
(* Vector3 and Matrix3x3 (rows).                                           *)
(***************************************************************************)
Vec(x, y, z) == <<Q(x), Q(y), Q(z)>>
ZeroVec == Vec(0, 0, 0)

addVectors(a, b) == <<QAdd(a[1], b[1]), QAdd(a[2], b[2]), QAdd(a[3], b[3])>>
subtractVectors(a, b) == <<QSub(a[1], b[1]), QSub(a[2], b[2]), QSub(a[3], b[3])>>
negateVector(a) == <<QNeg(a[1]), QNeg(a[2]), QNeg(a[3])>>
Dot(a, b) == QAdd(QAdd(QMul(a[1], b[1]), QMul(a[2], b[2])), QMul(a[3], b[3]))
multiplyMatrixVector(m, v) == <<Dot(m[1], v), Dot(m[2], v), Dot(m[3], v)>>

\* distance(from, to)^2: the radicand of waypointManeuvers.ts distance().
NormSquared(d) == Dot(d, d)
distanceSquared(from, to) == NormSquared(subtractVectors(to, from))

(***************************************************************************)
(* Configuration (config/constants.ts, config/orbital.ts).                  *)
(***************************************************************************)
\* 1e-10 in the source; 1e-9 is the smallest power of ten TLC's 32-bit
\* integers hold as a denominator.
MATRIX_SINGULARITY_TOLERANCE == <<1, 1000000000>>
MAX_WAYPOINTS == 3
DEFAULT_APPROACH_RATE == <<1, 2>>
MIN_TRANSFER_TIME == 60
MIN_WAYPOINT_DISTANCE == 10
MAX_LEG_DELTA_V == 10

\* ORBITAL_PARAMS.period, in whole seconds (scaled down with the scenario).
Period == 120

(***************************************************************************)
(* The propagator library (rpo-suite), an external capability: a relative- *)
(* motion propagator that is linear in the state, indexed by the phase at  *)
(* departure, and the phase advance.  The stand-in keeps what the engine   *)
(* relies on: linearity, identity at deltaTime = 0, dependence on theta0,  *)
(* and a velocity-to-position block that is singular when deltaTime is a   *)
(* whole number of periods.                                                *)
(***************************************************************************)
PhaseCell == 60

trueAnomalyAtTime(theta0, deltaTime) == theta0 + deltaTime

Coupling(theta0) == (theta0 \div PhaseCell) % 2

\* Drift at the velocity, 1 + Coupling(theta0) times as fast, with the
\* cross-track velocity coupled into the radial position.
Drift(r, v, s, g, k) ==
  << QAdd(r[1], QMul(s, QAdd(QMul(g, v[1]), QMul(k, v[3])))),
     QAdd(r[2], QMul(s, QMul(g, v[2]))),
     QAdd(r[3], QMul(s, QMul(g, v[3]))) >>
propagateYA(state, theta0, thetaF, deltaTime) ==
  [position |-> Drift(state.position, state.velocity, Q(deltaTime % Period),
                      Q(1 + Coupling(theta0)), Q(Coupling(theta0))),
   velocity |-> state.velocity]

(***************************************************************************)
(* utils/propagation.ts                                                    *)
(***************************************************************************)
applyBurn(state, deltaV) ==
  [position |-> state.position, velocity |-> addVectors(state.velocity, deltaV)]

stationaryState(position) == [position |-> position, velocity |-> ZeroVec]

(***************************************************************************)
(* utils/maneuvers.ts: the transition matrix extractor and the targeting   *)
(* solver.  A call that throws yields Thrown.                              *)
(***************************************************************************)
Thrown == [thrown |-> TRUE]

UnitVec(i) == <<IF i = 1 THEN Q(1) ELSE QZero,
                IF i = 2 THEN Q(1) ELSE QZero,
                IF i = 3 THEN Q(1) ELSE QZero>>

\* Variant: each probe's position stored as a row.
ColumnsAsRows(c1, c2, c3) == <<c1, c2, c3>>

\* Column i of each matrix is the propagated position of the i-th unit probe.
Columns(c1, c2, c3) == << <<c1[1], c2[1], c3[1]>>,
                          <<c1[2], c2[2], c3[2]>>,
                          <<c1[3], c2[3], c3[3]>> >>
posProbe(i, theta0, thetaF, deltaTime) ==
  propagateYA([position |-> UnitVec(i), velocity |-> ZeroVec],
              theta0, thetaF, deltaTime).position
velProbe(i, theta0, thetaF, deltaTime) ==
  propagateYA([position |-> ZeroVec, velocity |-> UnitVec(i)],
              theta0, thetaF, deltaTime).position
getSTMComponents(theta0, thetaF, deltaTime) ==
  [Phi_rr |-> Columns(posProbe(1, theta0, thetaF, deltaTime),
                      posProbe(2, theta0, thetaF, deltaTime),
                      posProbe(3, theta0, thetaF, deltaTime)),
   Phi_rv |-> Columns(velProbe(1, theta0, thetaF, deltaTime),
                      velProbe(2, theta0, thetaF, deltaTime),
                      velProbe(3, theta0, thetaF, deltaTime))]

Det2(a, b, c, d) == QSub(QMul(a, d), QMul(b, c))

determinant(m) ==
  QAdd(QSub(QMul(m[1][1], Det2(m[2][2], m[2][3], m[3][2], m[3][3])),
            QMul(m[1][2], Det2(m[2][1], m[2][3], m[3][1], m[3][3]))),
       QMul(m[1][3], Det2(m[2][1], m[2][2], m[3][1], m[3][2])))

isSingular(m) == QLt(QAbs(determinant(m)), MATRIX_SINGULARITY_TOLERANCE)

\* Variant: the cofactors left where they are computed, not transposed.
AdjugateUntransposed(m, invDet) ==
      << << QMul(Det2(m[2][2], m[2][3], m[3][2], m[3][3]), invDet),
            QMul(Det2(m[2][3], m[2][1], m[3][3], m[3][1]), invDet),
            QMul(Det2(m[2][1], m[2][2], m[3][1], m[3][2]), invDet) >>,
         << QMul(Det2(m[1][3], m[1][2], m[3][3], m[3][2]), invDet),
            QMul(Det2(m[1][1], m[1][3], m[3][1], m[3][3]), invDet),
            QMul(Det2(m[1][2], m[1][1], m[3][2], m[3][1]), invDet) >>,
         << QMul(Det2(m[1][2], m[1][3], m[2][2], m[2][3]), invDet),
            QMul(Det2(m[1][3], m[1][1], m[2][3], m[2][1]), invDet),
            QMul(Det2(m[1][1], m[1][2], m[2][1], m[2][2]), invDet) >> >>

\* invert3x3 for a matrix that passed the determinant test.
Adjugate(m, invDet) ==
      << << QMul(Det2(m[2][2], m[2][3], m[3][2], m[3][3]), invDet),
            QMul(Det2(m[1][3], m[1][2], m[3][3], m[3][2]), invDet),
            QMul(Det2(m[1][2], m[1][3], m[2][2], m[2][3]), invDet) >>,
         << QMul(Det2(m[2][3], m[2][1], m[3][3], m[3][1]), invDet),
            QMul(Det2(m[1][1], m[1][3], m[3][1], m[3][3]), invDet),
            QMul(Det2(m[1][3], m[1][1], m[2][3], m[2][1]), invDet) >>,
         << QMul(Det2(m[2][1], m[2][2], m[3][1], m[3][2]), invDet),
            QMul(Det2(m[1][2], m[1][1], m[3][2], m[3][1]), invDet),
            QMul(Det2(m[1][1], m[1][2], m[2][1], m[2][2]), invDet) >> >>
invert3x3(m) == Adjugate(m, QInv(determinant(m)))

solveBurn(stm, initialState, targetPosition) ==
  IF isSingular(stm.Phi_rv) THEN Thrown
  ELSE LET Phi_rv_inv == invert3x3(stm.Phi_rv)
           Phi_rr_r0 == multiplyMatrixVector(stm.Phi_rr, initialState.position)
           r_diff == subtractVectors(targetPosition, Phi_rr_r0)
           v_required == multiplyMatrixVector(Phi_rv_inv, r_diff)
       IN  [thrown |-> FALSE,
            deltaV |-> subtractVectors(v_required, initialState.velocity)]
calculateRendezvousBurn(initialState, targetPosition, transferTime, currentTheta) ==
  solveBurn(getSTMComponents(currentTheta,
                             trueAnomalyAtTime(currentTheta, transferTime),
                             transferTime),
            initialState, targetPosition)

(***************************************************************************)
(* utils/waypointManeuvers.ts: the leg planner.                            *)
(***************************************************************************)
\* Variant: the distance over the approach rate, without the floor.
calculateTransferTimeUnfloored(fromPosition, toPosition) ==
  ISqrt(QFloor(QDiv(distanceSquared(fromPosition, toPosition),
                    QMul(DEFAULT_APPROACH_RATE, DEFAULT_APPROACH_RATE))))

\* max(dist / approachRate, MIN_TRANSFER_TIME), in whole seconds.
calculateTransferTime(fromPosition, toPosition) ==
  LET rate2 == QMul(DEFAULT_APPROACH_RATE, DEFAULT_APPROACH_RATE)
      time == ISqrt(QFloor(QDiv(distanceSquared(fromPosition, toPosition), rate2)))
  IN  Max(time, MIN_TRANSFER_TIME)

\* Variant: the arrival burn repeats the arrival velocity.
legResultUnnegated(targetPosition, transferTime, deltaV, arrivalState, nextTheta) ==
  [thrown |-> FALSE,
   leg |-> [targetPosition |-> targetPosition,
            transferTime |-> transferTime,
            deltaV |-> deltaV,
            arrivalDeltaV |-> arrivalState.velocity],
   arrivalState |-> arrivalState,
   nextTheta |-> nextTheta]

\* Variant: the arrival state handed back already stopped.
legResultStationary(targetPosition, transferTime, deltaV, arrivalState, nextTheta) ==
  [thrown |-> FALSE,
   leg |-> [targetPosition |-> targetPosition,
            transferTime |-> transferTime,
            deltaV |-> deltaV,
            arrivalDeltaV |-> negateVector(arrivalState.velocity)],
   arrivalState |-> stationaryState(arrivalState.position),
   nextTheta |-> nextTheta]

\* What calculateLegManeuver returns: the leg with both burns, the arrival
\* state as propagated, the arrival phase.
legResult(targetPosition, transferTime, deltaV, arrivalState, nextTheta) ==
  [thrown |-> FALSE,
   leg |-> [targetPosition |-> targetPosition,
            transferTime |-> transferTime,
            deltaV |-> deltaV,
            arrivalDeltaV |-> negateVector(arrivalState.velocity)],
   arrivalState |-> arrivalState,
   nextTheta |-> nextTheta]

calculateLegManeuver(state, targetPosition, theta) ==
  Const(calculateTransferTime(state.position, targetPosition),
        LAMBDA transferTime :
  Const(calculateRendezvousBurn(state, targetPosition, transferTime, theta),
        LAMBDA burn :
    IF burn.thrown THEN Thrown
    ELSE
  legResult(targetPosition, transferTime, burn.deltaV,
            propagateYA(applyBurn(state, burn.deltaV), theta,
                        trueAnomalyAtTime(theta, transferTime), transferTime),
            trueAnomalyAtTime(theta, transferTime))))

\* The loop of calculateManeuverQueue over waypoints[i..], from (state, theta).
RECURSIVE planFrom(_, _, _, _)
planFrom(state, waypoints, i, theta) ==
  IF i > Len(waypoints) THEN [thrown |-> FALSE, legs |-> << >>]
  ELSE Const(calculateLegManeuver(state, waypoints[i].position, theta),
             LAMBDA m :
         IF m.thrown THEN Thrown
         ELSE Const(planFrom(stationaryState(m.arrivalState.position),
                             waypoints, i + 1, m.nextTheta),
                    LAMBDA rest :
                IF rest.thrown THEN Thrown
                ELSE [thrown |-> FALSE, legs |-> <<m.leg>> \o rest.legs]))

calculateManeuverQueue(initialState, waypoints, currentTheta) ==
  planFrom(initialState, waypoints, 1, currentTheta)

(***************************************************************************)
(* hooks/useManeuverQueue.ts.  A value that may be null is << >> (null) or *)
(* <<v>>.  Each operation is first a function from what it reads to what   *)
(* it returns and which state setters it calls; the actions below apply    *)
(* it.  queue, executingWaypoints and previewLegs are the hook's React     *)
(* state (with every setter call so far applied); queueRef and             *)
(* executingWaypointsRef are the ref cells, which only the sync effects    *)
(* write, after a render.                                                  *)
(***************************************************************************)
Null == << >>
Some(v) == <<v>>

NoCall == [thrown |-> FALSE, ret |-> Null,
           setQueue |-> FALSE, queue |-> Null,
           setExecutingWaypoints |-> FALSE, executingWaypoints |-> << >>,
           setPreviewLegs |-> FALSE, previewLegs |-> << >>]

\* Variant: the queue torn down before the error leaves the operation.
ThrownCallAfterTeardown ==
  [NoCall EXCEPT !.thrown = TRUE, !.setQueue = TRUE,
                 !.setExecutingWaypoints = TRUE]

ThrownCall == [NoCall EXCEPT !.thrown = TRUE]

\* Variant: the execution's phase left at the epoch.
initialQueueAtEpoch(allLegs, startTheta) ==
  [legs |-> allLegs, currentLegIndex |-> 0, startTheta |-> startTheta,
   currentTheta |-> 0]

\* The queue object startExecution stores.
initialQueue(allLegs, startTheta) ==
  [legs |-> allLegs, currentLegIndex |-> 0, startTheta |-> startTheta,
   currentTheta |-> startTheta]

\* Variant: an empty start tearing the stored queue down.
emptyStartResultClearing ==
  [NoCall EXCEPT !.setQueue = TRUE, !.setExecutingWaypoints = TRUE]

\* The early return on an empty waypoint list: null, no setter called.
emptyStartResult == NoCall

startExecution(currentState, waypoints, elapsedTime) ==
  IF Len(waypoints) = 0 THEN emptyStartResult
  ELSE Const(calculateLegManeuver(currentState, waypoints[1].position,
                                  trueAnomalyAtTime(0, elapsedTime)),
             LAMBDA fresh :
       Const(calculateManeuverQueue(currentState, waypoints,
                                    trueAnomalyAtTime(0, elapsedTime)),
             LAMBDA all :
         IF fresh.thrown \/ all.thrown THEN ThrownCall
         ELSE [NoCall EXCEPT
                 !.ret = Some([position |-> currentState.position,
                               velocity |-> addVectors(currentState.velocity,
                                                       fresh.leg.deltaV)]),
                 !.setQueue = TRUE,
                 !.queue = Some(initialQueue(
                                  [all.legs EXCEPT ![1] = fresh.leg],
                                  trueAnomalyAtTime(0, elapsedTime))),
                 !.setExecutingWaypoints = TRUE,
                 !.executingWaypoints = waypoints]))

\* legs[] and the waypoint snapshot are 0-indexed in the source, 1-indexed here.
\* Variants: a leg held one comparison too long; the last leg skipped.
legInFlightOrDue(newTime, currentLeg) == newTime <= currentLeg.transferTime
hasLegAfterNext(nextIndex, currentQueue) ==
  nextIndex + 1 < Len(currentQueue.legs)

\* The early return on a leg still in flight, and the test for a next leg.
legInFlight(newTime, currentLeg) == newTime < currentLeg.transferTime
hasNextLeg(nextIndex, currentQueue) == nextIndex < Len(currentQueue.legs)

\* Variants: the index advanced past the next leg; the planned leg kept;
\* the live velocity kept on completion.
updatedQueueSkippingLeg(currentQueue, nextIndex, freshNextLeg, nextTheta) ==
  [currentQueue EXCEPT
     !.legs = [currentQueue.legs EXCEPT ![nextIndex + 1] = freshNextLeg],
     !.currentLegIndex = nextIndex + 1,
     !.currentTheta = nextTheta]
updatedQueueKeepingPlan(currentQueue, nextIndex, freshNextLeg, nextTheta) ==
  [currentQueue EXCEPT !.currentLegIndex = nextIndex,
                       !.currentTheta = nextTheta]
completeResultCoasting(currentState, nextTheta) ==
  [type |-> "complete", newState |-> currentState, nextTheta |-> nextTheta]

\* The queue object a 'continue' transition stores, and the two results.
updatedQueue(currentQueue, nextIndex, freshNextLeg, nextTheta) ==
  [currentQueue EXCEPT
     !.legs = [currentQueue.legs EXCEPT ![nextIndex + 1] = freshNextLeg],
     !.currentLegIndex = nextIndex,
     !.currentTheta = nextTheta]
continueResult(currentState, freshNextLeg, nextTheta) ==
  [type |-> "continue",
   newState |-> [position |-> currentState.position,
                 velocity |-> freshNextLeg.deltaV],
   nextTheta |-> nextTheta]
completeResult(currentState, nextTheta) ==
  [type |-> "complete",
   newState |-> [position |-> currentState.position, velocity |-> ZeroVec],
   nextTheta |-> nextTheta]

\* Variant: the transition skipped, the queue left as it is.
invalidQueueResultKeepingQueue == NoCall

\* The safety check: the waypoint of the next leg is missing.
invalidQueueResult ==
  [NoCall EXCEPT !.setQueue = TRUE, !.setExecutingWaypoints = TRUE]

checkLegTransition(queueRefCurrent, waypointsRefCurrent, newTime, currentState) ==
  IF queueRefCurrent = Null THEN NoCall
  ELSE LET currentQueue == queueRefCurrent[1]
           currentLeg == currentQueue.legs[currentQueue.currentLegIndex + 1]
           nextIndex == currentQueue.currentLegIndex + 1
           nextTheta == trueAnomalyAtTime(currentQueue.currentTheta,
                                          currentLeg.transferTime)
       IN  IF legInFlight(newTime, currentLeg) THEN NoCall
           ELSE IF hasNextLeg(nextIndex, currentQueue)
           THEN IF nextIndex + 1 > Len(waypointsRefCurrent)
                THEN invalidQueueResult
                ELSE Const(calculateLegManeuver(
                             [position |-> currentState.position,
                              velocity |-> ZeroVec],
                             waypointsRefCurrent[nextIndex + 1].position,
                             nextTheta),
                           LAMBDA fresh :
                       IF fresh.thrown THEN ThrownCall
                       ELSE [NoCall EXCEPT
                               !.ret = Some(continueResult(currentState,
                                              fresh.leg, nextTheta)),
                               !.setQueue = TRUE,
                               !.queue = Some(updatedQueue(currentQueue,
                                           nextIndex, fresh.leg, nextTheta))])
           ELSE [NoCall EXCEPT
                   !.ret = Some(completeResult(currentState, nextTheta)),
                   !.setQueue = TRUE,
                   !.setExecutingWaypoints = TRUE]

\* Variant: the preview left in place.
cancelExecutionKeepingPreview ==
  [NoCall EXCEPT !.setQueue = TRUE, !.setExecutingWaypoints = TRUE]

cancelExecution ==
  [NoCall EXCEPT !.setQueue = TRUE, !.setExecutingWaypoints = TRUE,
                 !.setPreviewLegs = TRUE]

calculatePreview(currentState, waypoints, elapsedTime) ==
  IF Len(waypoints) = 0 THEN [NoCall EXCEPT !.setPreviewLegs = TRUE]
  ELSE Const(calculateManeuverQueue(currentState, waypoints,
                                    trueAnomalyAtTime(0, elapsedTime)),
             LAMBDA all :
         IF all.thrown THEN ThrownCall
         ELSE [NoCall EXCEPT !.setPreviewLegs = TRUE,
                             !.previewLegs = all.legs])

\* utils/waypointManeuvers.ts, totalDeltaV(legs) = 0: a sum of magnitudes,
\* zero exactly when every departure and arrival burn is the zero vector.
totalDeltaVIsZero(legs) ==
  \A i \in 1..Len(legs) :
    legs[i].deltaV = ZeroVec /\ legs[i].arrivalDeltaV = ZeroVec

\* The current leg of a queue object.
currentLegOf(q) == q.legs[q.currentLegIndex + 1]

(***************************************************************************)
(* What the App renders with: utils/fmc.ts, utils/propagation.ts,          *)
(* utils/time.ts, the validator of utils/waypointManeuvers.ts, and the     *)
(* ranges of the initial-state controls.                                   *)
(***************************************************************************)
FMC_STATIONARY_THRESHOLD == <<1, 1000>>
\* ORBITAL_PARAMS.meanMotion, 2 pi / Period to two digits.
MeanMotion == <<1, 19>>

\* Circular motion about the chief in the R-I plane, a quarter turn every
\* quarter period; between quarter periods the phase of the last one.
\* Variant: no stationary case, the circular motion whatever the radius.
calculateFMCStateAlwaysCircling(targetPosition, elapsedTimeSinceFMC, meanMotion) ==
  LET r == targetPosition[1]
      i == targetPosition[2]
      turns == ((4 * elapsedTimeSinceFMC) \div Period) % 4
      x == CASE turns = 0 -> r [] turns = 1 -> QNeg(i)
             [] turns = 2 -> QNeg(r) [] OTHER -> i
      y == CASE turns = 0 -> i [] turns = 1 -> r
             [] turns = 2 -> QNeg(i) [] OTHER -> QNeg(r)
  IN  [position |-> <<x, y, targetPosition[3]>>,
       velocity |-> <<QNeg(QMul(meanMotion, y)), QMul(meanMotion, x),
                      QZero>>]

calculateFMCState(targetPosition, elapsedTimeSinceFMC, meanMotion) ==
  LET r == targetPosition[1]
      i == targetPosition[2]
      c == targetPosition[3]
      R2 == QAdd(QMul(r, r), QMul(i, i))
      turns == ((4 * elapsedTimeSinceFMC) \div Period) % 4
      x == CASE turns = 0 -> r [] turns = 1 -> QNeg(i)
             [] turns = 2 -> QNeg(r) [] OTHER -> i
      y == CASE turns = 0 -> i [] turns = 1 -> r
             [] turns = 2 -> QNeg(i) [] OTHER -> QNeg(r)
  IN  IF QLt(R2, QMul(FMC_STATIONARY_THRESHOLD, FMC_STATIONARY_THRESHOLD))
      THEN [position |-> targetPosition, velocity |-> ZeroVec]
      ELSE [position |-> <<x, y, c>>,
            velocity |-> <<QNeg(QMul(meanMotion, y)), QMul(meanMotion, x),
                           QZero>>]

\* maneuverConfig is << >> (null) or <<[targetPosition, transferTime, fmc]>>.
\* t_fmc when the FMC state is used, << >> when the propagator is.
fmcElapsed(elapsedTime, maneuverConfig) ==
  IF /\ maneuverConfig # << >>
     /\ elapsedTime >= maneuverConfig[1].transferTime
     /\ maneuverConfig[1].fmc
  THEN <<elapsedTime - maneuverConfig[1].transferTime>>
  ELSE << >>
propagateToTime(initialState, elapsedTime, baseTheta, maneuverConfig) ==
  IF fmcElapsed(elapsedTime, maneuverConfig) # << >>
  THEN calculateFMCState(maneuverConfig[1].targetPosition,
                         fmcElapsed(elapsedTime, maneuverConfig)[1],
                         MeanMotion)
  ELSE propagateYA(initialState, baseTheta,
                   trueAnomalyAtTime(baseTheta, elapsedTime), elapsedTime)

(***************************************************************************)
(* components/Trajectory.tsx: the sampler of the displayed path while a    *)
(* queue executes.  The source samples 2000 points an orbit; the scenario  *)
(* samples 4, so that a leg has samples at its start, middle and end.      *)
(* Sample times are whole seconds, rounded down.                           *)
(***************************************************************************)
SCALE == <<1, 100>>
TRAJECTORY_POINTS_PER_ORBIT == 4
POINTS_PER_LEG == TRAJECTORY_POINTS_PER_ORBIT \div 2

\* utils/coordinates.ts: RIC to the display frame.
toThreeJS(ricPosition) ==
  <<QMul(ricPosition[2], SCALE), QMul(ricPosition[1], SCALE),
    QMul(ricPosition[3], SCALE)>>

\* One pushed point: the state propagated by t from the phase theta.
samplePoint(state, theta, t) ==
  toThreeJS(propagateYA(state, theta, trueAnomalyAtTime(theta, t), t).position)

\* Variant: the completed legs sampled again.
firstSampledLegOfPlan(queue) == 0

\* The leg the outer loop starts at.
firstSampledLeg(queue) == queue.currentLegIndex

\* The inner loop over j = 0..POINTS_PER_LEG for one leg.
legPoints(legState, theta, leg, j) ==
  samplePoint(legState, theta, (j * leg.transferTime) \div POINTS_PER_LEG)

\* The outer loop from leg i (0-indexed) on: the points pushed, and the
\* state, phase and elapsed time the loop ends with.
RECURSIVE sampleLegs(_, _, _, _, _)
sampleLegs(queue, i, state, theta, totalElapsedTime) ==
  IF i >= Len(queue.legs)
  THEN [points |-> << >>, state |-> state, theta |-> theta,
        totalElapsedTime |-> totalElapsedTime]
  ELSE Const(queue.legs[i + 1], LAMBDA leg :
       Const(IF i = queue.currentLegIndex THEN state
             ELSE [position |-> state.position, velocity |-> leg.deltaV],
             LAMBDA legState :
       Const(sampleLegs(queue, i + 1,
                        [position |-> leg.targetPosition, velocity |-> ZeroVec],
                        trueAnomalyAtTime(theta, leg.transferTime),
                        totalElapsedTime + leg.transferTime),
             LAMBDA rest :
         [rest EXCEPT !.points =
            [j \in 1..(POINTS_PER_LEG + 1) |->
               legPoints(legState, theta, leg, j - 1)] \o @])))

\* The free flight from the last state for the display time that remains.
freeFlightPoints(state, theta, remainingDuration) ==
  IF remainingDuration > 0
  THEN [i \in 1..((remainingDuration * TRAJECTORY_POINTS_PER_ORBIT) \div Period)
          |-> samplePoint(state, theta,
                          (i * Period) \div TRAJECTORY_POINTS_PER_ORBIT)]
  ELSE << >>

computeWaypointTrajectory(initialState, queue, numOrbits) ==
  Const(sampleLegs(queue, firstSampledLeg(queue), initialState,
                   queue.currentTheta, 0),
        LAMBDA sampled :
    sampled.points \o
    freeFlightPoints(sampled.state, sampled.theta,
                     numOrbits * Period - sampled.totalElapsedTime))

advanceSimulationTime(current, deltaSeconds, duration) ==
  IF current + deltaSeconds >= duration
  THEN [time |-> duration, completed |-> TRUE]
  ELSE [time |-> current + deltaSeconds, completed |-> FALSE]

\* sqrt(a) + sqrt(b) > limit, for a, b >= 0, decided without roots.
RootSumExceeds(a, b, limit) ==
  LET l2 == Q(limit * limit)
      d == QSub(QAdd(l2, a), b)
  IN  IF QLt(l2, a) \/ QLt(l2, b) THEN TRUE
      ELSE IF ~QLt(Q((limit * limit) \div 4), a)
              /\ ~QLt(Q((limit * limit) \div 4), b) THEN FALSE
      ELSE IF QLt(d, QZero) THEN TRUE
      ELSE QLt(QMul(d, d), QMul(Q(4 * limit * limit), a))

\* legDeltaV(leg) > MAX_LEG_DELTA_V.
legDeltaVTooHigh(leg) ==
  RootSumExceeds(Dot(leg.deltaV, leg.deltaV),
                 Dot(leg.arrivalDeltaV, leg.arrivalDeltaV), MAX_LEG_DELTA_V)

tooClose(from, to) ==
  QLt(distanceSquared(from, to),
      Q(MIN_WAYPOINT_DISTANCE * MIN_WAYPOINT_DISTANCE))

\* Variant: the inner loop stops at the first overlap it finds.
RECURSIVE overlapErrorsFirstOnly(_, _, _)
overlapErrorsFirstOnly(waypoints, i, j) ==
  IF j > Len(waypoints) THEN << >>
  ELSE IF tooClose(waypoints[i].position, waypoints[j].position)
       THEN <<[type |-> "overlapping", waypointIndex |-> j - 1]>>
       ELSE overlapErrorsFirstOnly(waypoints, i, j + 1)

\* Variant: the inner loop leaves the next waypoint to the too_close rule.
RECURSIVE overlapErrorsBeyondNeighbour(_, _, _)
overlapErrorsBeyondNeighbour(waypoints, i, j) ==
  IF j > Len(waypoints) THEN << >>
  ELSE (IF j > i + 1
           /\ tooClose(waypoints[i].position, waypoints[j].position)
        THEN <<[type |-> "overlapping", waypointIndex |-> j - 1]>>
        ELSE << >>) \o overlapErrorsBeyondNeighbour(waypoints, i, j + 1)

\* The errors of waypoint i (1-indexed here), in the order the loop pushes.
RECURSIVE overlapErrors(_, _, _)
overlapErrors(waypoints, i, j) ==
  IF j > Len(waypoints) THEN << >>
  ELSE (IF tooClose(waypoints[i].position, waypoints[j].position)
        THEN <<[type |-> "overlapping", waypointIndex |-> j - 1]>>
        ELSE << >>) \o overlapErrors(waypoints, i, j + 1)

RECURSIVE validateFrom(_, _, _, _)
validateFrom(currentPosition, waypoints, legs, i) ==
  IF i > Len(waypoints) THEN << >>
  ELSE LET prevPosition == IF i = 1 THEN currentPosition
                           ELSE waypoints[i - 1].position
       IN  (IF tooClose(prevPosition, waypoints[i].position)
            THEN <<[type |-> "too_close", waypointIndex |-> i - 1]>>
            ELSE << >>)
           \o overlapErrors(waypoints, i, i + 1)
           \o (IF i <= Len(legs) /\ legDeltaVTooHigh(legs[i])
               THEN <<[type |-> "high_delta_v", waypointIndex |-> i - 1]>>
               ELSE << >>)
           \o validateFrom(currentPosition, waypoints, legs, i + 1)

validateWaypoints(currentPosition, waypoints, legs) ==
  validateFrom(currentPosition, waypoints, legs, 1)

\* The ranges the initial-state controls keep their values in.
Clamp(q, lo, hi) ==
  IF QLt(q, Q(lo)) THEN Q(lo) ELSE IF QLt(Q(hi), q) THEN Q(hi) ELSE q
setControls(state) ==
  [position |-> <<Clamp(state.position[1], -4000, 4000),
                  Clamp(state.position[2], -6000, 6000),
                  Clamp(state.position[3], -2000, 2000)>>,
   velocity |-> <<Clamp(state.velocity[1], -5, 5),
                  Clamp(state.velocity[2], -5, 5),
                  Clamp(state.velocity[3], -5, 5)>>]

(***************************************************************************)
(* State.                                                                  *)
(***************************************************************************)
VARIABLES
  queue,                  \* useManeuverQueue: useState<ManeuverQueue | null>
  executingWaypoints,     \* useManeuverQueue: useState<Waypoint[]>
  previewLegs,            \* useManeuverQueue: useState<ManeuverLeg[]>
  queueRef,               \* queueRef.current
  executingWaypointsRef,  \* executingWaypointsRef.current
  renderPending,          \* a setter was called and the render is yet to come
  plan,                   \* the waypoint positions the caller works with
  last,                   \* the call of a hook operation just made
  run,                    \* what the execution started last has yielded so far
  app                     \* the App component: its state, refs and history

hookVars == <<queue, executingWaypoints, previewLegs, queueRef,
              executingWaypointsRef, renderPending>>
obsVars == <<last, run>>
vars == <<hookVars, plan, obsVars, app>>

(***************************************************************************)
(* The queue hook under a caller (SpecQueue): the caller works with one    *)
(* list of waypoint positions, starts executions on any prefix of it, and  *)
(* calls the hook's operations in any order, one call per event; the       *)
(* render an event schedules commits, and the sync effects run, before the *)
(* next event.                                                             *)
(***************************************************************************)
MaxPlan == 3

\* Two targets 20 m apart; a deputy at rest 60 m from the second target, whose
\* transfer there lasts one whole period, and a drifting deputy.
WaypointPositions == {Vec(0, 30, 0), Vec(0, 50, 0)}
LiveStates == {[position |-> Vec(0, -10, 0), velocity |-> ZeroVec],
               [position |-> Vec(40, 30, 10), velocity |-> Vec(0, 1, 1)]}
StartTimes == {0, 60}
\* One second short of the 80 s the resting deputy needs to the first target,
\* exactly that, and longer than any leg.
CheckTimes == {79, 80, 200}

Plans == [1..MaxPlan -> WaypointPositions]

\* Waypoint objects for a list of positions; the id is the place in the list.
MkWaypoints(positions) ==
  [i \in 1..Len(positions) |-> [id |-> i, position |-> positions[i]]]

\* What the caller can pass to startExecution and to calculatePreview, and
\* what each call gives: the operations applied once to every such input.
Prefixes == {SubSeq(p, 1, n) : p \in Plans, n \in 0..MaxPlan}
startExecutionOf ==
  [st \in LiveStates, ps \in Prefixes, t \in StartTimes |->
     startExecution(st, MkWaypoints(ps), t)]
calculatePreviewOf ==
  [st \in LiveStates, ps \in Plans, t \in StartTimes |->
     calculatePreview(st, MkWaypoints(ps), t)]

(***************************************************************************)
(* The App component (part_001) with hooks/useSimulationTime.ts.  app is a *)
(* record of                                                               *)
(*   elapsedTime, isPlaying, baseTheta      useSimulationTime's state      *)
(*   controls                               the initial-state controls     *)
(*   currentState, maneuverConfig, waypoints, postExecutionState           *)
(*                                          App's state                    *)
(*   currentStateRef                        App's ref                      *)
(*   seen            the render whose effects ran last: what the handlers  *)
(*                   held in refs (onExecuteRef, onAddRef, ...) close over *)
(*   effectsPending  a frame's render is committed, its effects are not run*)
(*   crashed         an effect threw: React has unmounted the tree         *)
(*   legClock, cancelled, fired, ticks, clicks      history                *)
(* A handler or an effect is a function from the world (app and the queue  *)
(* hook's state and refs in one record) to the world; state setters called *)
(* later overwrite those called earlier.                                   *)
(***************************************************************************)
MaxTicks == 3
MaxClicks == 4
NumOrbits == 2
WaypointSpacing == 20
TickSteps == {30, 90}
InitialControls == [position |-> Vec(0, -10, 0), velocity |-> ZeroVec]
BurnParams == [targetPosition : {Vec(0, 30, 0)}, transferTime : {60},
               fmc : BOOLEAN]

World ==
  app @@ [queue |-> queue, executingWaypoints |-> executingWaypoints,
          previewLegs |-> previewLegs, queueRef |-> queueRef,
          executingWaypointsRef |-> executingWaypointsRef]

Snapshot(r) ==
  [elapsedTime |-> r.elapsedTime, currentState |-> r.currentState,
   waypoints |-> r.waypoints, waypointLegs |-> r.previewLegs,
   baseTheta |-> r.baseTheta]

\* The state setters of the queue hook that an operation called, applied.
applyOutcome(s, out) ==
  [s EXCEPT
     !.queue = IF out.setQueue THEN out.queue ELSE @,
     !.executingWaypoints = IF out.setExecutingWaypoints
                            THEN out.executingWaypoints ELSE @,
     !.previewLegs = IF out.setPreviewLegs THEN out.previewLegs ELSE @]

\* useSimulationTime: currentTheta; DeputySpacecraft: state.
currentThetaOf(r) == trueAnomalyAtTime(r.baseTheta, r.elapsedTime)
\* The state the deputy and the trajectory are propagated from:
\* postExecutionState ?? initialRelativeState.
initialStateProp(r) ==
  IF r.postExecutionState # Null THEN r.postExecutionState[1] ELSE r.controls
\* History: the state an operation returned for the caller to adopt, and the
\* state the deputy is propagated from once the caller's setters are applied.
withAdoption(next, field, returned) ==
  [next EXCEPT ![field] =
     Some(@[1] @@ [returned |-> returned, origin |-> initialStateProp(next)])]
deputyState(r) ==
  propagateToTime(initialStateProp(r),
                  r.elapsedTime,
                  IF r.queue # Null THEN r.queue[1].currentTheta
                  ELSE currentThetaOf(r),
                  r.maneuverConfig)

\* App: the preview effect of render r.
previewEffect(r, s) ==
  IF /\ <<r.currentState, r.waypoints, r.elapsedTime>> #
          <<s.seen.currentState, s.seen.waypoints, s.seen.elapsedTime>>
     /\ r.currentState # Null
     /\ Len(r.waypoints) > 0
  THEN Const(calculatePreview(r.currentState[1], r.waypoints,
                              r.elapsedTime),
             LAMBDA out : IF out.thrown THEN [s EXCEPT !.crashed = TRUE]
                          ELSE applyOutcome(s, out))
  ELSE s

\* App: the leg-transition effect of render r.
applyTransition(r, s, out, result) ==
  withAdoption(
  [applyOutcome(s, out) EXCEPT
     !.controls = setControls(result.newState),
     !.elapsedTime = 0,
     !.baseTheta = IF result.type = "complete" THEN result.nextTheta ELSE @,
     !.postExecutionState =
        IF result.type = "complete" THEN Some(result.newState) ELSE @,
     !.fired = Some([type |-> result.type,
                     newTime |-> r.elapsedTime,
                     legClock |-> s.legClock,
                     transferTime |->
                       currentLegOf(s.queueRef[1]).transferTime,
                     cancelled |-> s.cancelled]),
     !.legClock = 0],
  "fired", result.newState)
\* A transition is due onto a leg whose waypoint the snapshot lacks.
waypointMissing(queueRefCurrent, waypointsRefCurrent, newTime) ==
  /\ queueRefCurrent # Null
  /\ newTime >= currentLegOf(queueRefCurrent[1]).transferTime
  /\ queueRefCurrent[1].currentLegIndex + 1 < Len(queueRefCurrent[1].legs)
  /\ queueRefCurrent[1].currentLegIndex + 2 > Len(waypointsRefCurrent)
\* What the effect left behind when it ran in that situation.
observeMissing(r, s, out, next) ==
  IF waypointMissing(s.queueRef, s.executingWaypointsRef, r.elapsedTime)
  THEN [next EXCEPT !.missing =
          Some([ret |-> out.ret,
                queue |-> next.queue,
                executingWaypoints |-> next.executingWaypoints,
                index |-> s.queueRef[1].currentLegIndex,
                burned |-> next.controls # s.controls,
                retimed |-> next.elapsedTime # s.elapsedTime])]
  ELSE next
transitionEffect(r, s) ==
  IF s.currentStateRef = Null THEN s
  ELSE Const(checkLegTransition(s.queueRef, s.executingWaypointsRef,
                                r.elapsedTime, s.currentStateRef[1]),
             LAMBDA out :
         IF out.thrown THEN [s EXCEPT !.crashed = TRUE]
         ELSE observeMissing(r, s, out,
                IF out.ret = Null THEN applyOutcome(s, out)
                ELSE applyTransition(r, s, out, out.ret[1])))

\* The passive effects of render r, in the order React runs them: the
\* queue hook's ref syncs, the preview effect, the handler refs, the
\* currentStateRef sync, the leg-transition effect (when elapsedTime
\* changed), and DeputySpacecraft reporting its state.
RunEffects(r, s) ==
  Const(previewEffect(r, [s EXCEPT
                            !.queueRef = r.queue,
                            !.executingWaypointsRef = r.executingWaypoints]),
        LAMBDA s2 :
    IF s2.crashed THEN s2
    ELSE
  Const(IF r.elapsedTime # s.seen.elapsedTime
        THEN transitionEffect(r, [s2 EXCEPT
                                    !.seen = Snapshot(r),
                                    !.currentStateRef = r.currentState])
        ELSE [s2 EXCEPT !.seen = Snapshot(r),
                        !.currentStateRef = r.currentState],
        LAMBDA s4 :
      IF s4.crashed THEN s4
      ELSE [s4 EXCEPT !.currentState = Some(deputyState(r)),
                      !.effectsPending = FALSE]))

\* Render, run the effects, and again while they set state.
RECURSIVE Settle(_)
Settle(s) ==
  IF s.crashed THEN s
  ELSE Const(RunEffects(s, s),
             LAMBDA s1 : IF s1 = s THEN s ELSE Settle(s1))


\* The handlers.  Each reads what its closure holds (s.seen) or the refs,
\* and calls state setters.
togglePlaying(s) == [s EXCEPT !.isPlaying = ~@]

\* The Reset button: resetTime, then the preset callback.
handleReset(s) ==
  [applyOutcome(s, cancelExecution) EXCEPT
     !.elapsedTime = 0, !.isPlaying = FALSE, !.baseTheta = 0,
     !.maneuverConfig = Null, !.waypoints = << >>,
     !.postExecutionState = Null, !.cancelled = TRUE]

handleExecuteBurn(s, params) ==
  IF s.seen.currentState = Null THEN s
  ELSE Const(calculateRendezvousBurn(s.seen.currentState[1],
               params.targetPosition, params.transferTime,
               currentThetaOf(s.seen)),
             LAMBDA burn :
         IF burn.thrown THEN s
         ELSE [s EXCEPT
                 !.controls = setControls(
                    [position |-> s.seen.currentState[1].position,
                     velocity |-> addVectors(s.seen.currentState[1].velocity,
                                             burn.deltaV)]),
                 !.maneuverConfig = Some(params),
                 !.isPlaying = TRUE,
                 !.burnClock = 0])

handleAddWaypoint(s) ==
  IF Len(s.seen.waypoints) >= 3 THEN s
  ELSE LET inTrack == IF s.seen.currentState # Null
                      THEN s.seen.currentState[1].position[2] ELSE QZero
           defaultPosition ==
             <<QZero,
               QSub(inTrack,
                    Q(WaypointSpacing * (Len(s.seen.waypoints) + 1))),
               QZero>>
       IN  [s EXCEPT !.waypoints =
              Append(@, [id |-> s.clicks + 1, position |-> defaultPosition])]

handleWaypointChange(s, i, position) ==
  [s EXCEPT !.waypoints =
     [k \in 1..Len(@) |-> IF @[k].id = s.waypoints[i].id
                          THEN [@[k] EXCEPT !.position = position]
                          ELSE @[k]]]

handleClearWaypoints(s) == [s EXCEPT !.waypoints = << >>]

validationErrors(r) ==
  IF r.currentState = Null \/ Len(r.waypoints) = 0 THEN << >>
  ELSE validateWaypoints(r.currentState[1].position, r.waypoints,
                         r.waypointLegs)

handleExecuteWaypointManeuver(s) ==
  IF \/ s.seen.currentState = Null
     \/ Len(s.seen.waypoints) = 0
     \/ Len(s.seen.waypointLegs) = 0
  THEN s
  ELSE Const(startExecution(s.seen.currentState[1], s.seen.waypoints,
                            s.seen.elapsedTime),
             LAMBDA out :
         IF out.thrown \/ out.ret = Null THEN s
         ELSE withAdoption(
              [applyOutcome(s, out) EXCEPT
                 !.controls = setControls(out.ret[1]),
                 !.waypoints = << >>,
                 !.maneuverConfig = Null,
                 !.isPlaying = TRUE,
                 !.cancelled = FALSE,
                 !.legClock = 0,
                 !.started =
                    Some([whileExecuting |-> s.queue # Null,
                          startTheta |-> out.queue[1].startTheta,
                          currentTheta |-> out.queue[1].currentTheta,
                          clockTheta |-> currentThetaOf(s.seen),
                          waypoints |-> out.executingWaypoints,
                          errors |-> validateWaypoints(
                                       s.seen.currentState[1].position,
                                       out.executingWaypoints,
                                       out.queue[1].legs)])],
              "started", out.ret[1]))

\* Variant: the button checks canExecute only.
executeGateIgnoringErrors(r) ==
  r.currentState # Null /\ Len(r.waypoints) > 0

\* useWaypointControls: the Execute Maneuver button.
executeGate(r) ==
  /\ r.currentState # Null /\ Len(r.waypoints) > 0
  /\ Len(validationErrors(r)) = 0
executeManeuverButton(s) ==
  IF executeGate(s.seen)
  THEN handleExecuteWaypointManeuver(
         [s EXCEPT !.pressed = Some([errors |-> validationErrors(s.seen),
                                     shown |-> validationErrors(Snapshot(s)),
                                     invoked |-> Len(s.seen.waypointLegs) > 0]),
                   !.started = Null])
  ELSE [s EXCEPT !.pressed = Some([errors |-> validationErrors(s.seen),
                                   shown |-> validationErrors(Snapshot(s)),
                                   invoked |-> FALSE]),
                 !.started = Null]

Unmounted ==
  [elapsedTime |-> 0, isPlaying |-> FALSE, baseTheta |-> 0,
   controls |-> InitialControls, currentState |-> Null,
   maneuverConfig |-> Null, waypoints |-> << >>,
   postExecutionState |-> Null, currentStateRef |-> Null,
   seen |-> [elapsedTime |-> 0, currentState |-> Null, waypoints |-> << >>,
             waypointLegs |-> << >>, baseTheta |-> 0],
   effectsPending |-> FALSE, crashed |-> FALSE,
   legClock |-> 0, cancelled |-> FALSE, fired |-> Null, missing |-> Null,
   pressed |-> Null, started |-> Null, burnClock |-> 0,
   ticks |-> 0, clicks |-> 0,
   queue |-> Null, executingWaypoints |-> << >>, previewLegs |-> << >>,
   queueRef |-> Null, executingWaypointsRef |-> << >>]

AppFields ==
  DOMAIN Unmounted \ {"queue", "executingWaypoints", "previewLegs",
                      "queueRef", "executingWaypointsRef"}
AppOf(w) == [f \in AppFields |-> w[f]]
Mounted == Settle(Unmounted)

NoLast == [op |-> "none", currentState |-> Null, time |-> 0, n |-> 0,
           thrown |-> FALSE, ret |-> Null]
Called(op, currentState, time, n, out) ==
  [op |-> op, currentState |-> currentState, time |-> time, n |-> n,
   thrown |-> out.thrown, ret |-> out.ret]
NoRun == [n |-> 0, results |-> << >>]

HookInit ==
  /\ queue = Null
  /\ executingWaypoints = << >>
  /\ previewLegs = << >>
  /\ queueRef = Null
  /\ executingWaypointsRef = << >>
  /\ renderPending = FALSE

QInit ==
  /\ HookInit
  /\ plan \in Plans
  /\ last = NoLast
  /\ run = NoRun
  /\ app = AppOf(Mounted)

\* The state setters an operation called, applied.
ApplySetters(out) ==
  /\ queue' = IF out.setQueue THEN out.queue ELSE queue
  /\ executingWaypoints' = IF out.setExecutingWaypoints
                           THEN out.executingWaypoints ELSE executingWaypoints
  /\ previewLegs' = IF out.setPreviewLegs THEN out.previewLegs ELSE previewLegs

\* One call of a hook operation by the caller, with what it gave.
Call(out) ==
  /\ ApplySetters(out)
  /\ renderPending' = TRUE
  /\ UNCHANGED <<queueRef, executingWaypointsRef, plan, app>>

DoStartExecution(currentState, n, elapsedTime) ==
  /\ ~renderPending
  /\ \E out \in {startExecutionOf[currentState, SubSeq(plan, 1, n), elapsedTime]} :
      /\ Call(out)
      /\ last' = Called("startExecution", Some(currentState), elapsedTime, n,
                        out)
      /\ run' = IF out.setQueue THEN [n |-> n, results |-> << >>] ELSE run

DoCheckLegTransition(newTime, currentState) ==
  /\ ~renderPending
  /\ \E out \in {checkLegTransition(queueRef, executingWaypointsRef, newTime,
                                  currentState)} :
      /\ Call(out)
      /\ last' = Called("checkLegTransition", Some(currentState), newTime, 0,
                        out)
      /\ run' = IF out.ret = Null THEN run
                ELSE [run EXCEPT !.results = Append(@, out.ret[1].type)]

DoCancelExecution ==
  /\ ~renderPending
  /\ Call(cancelExecution)
  /\ last' = Called("cancelExecution", Null, 0, 0, cancelExecution)
  /\ run' = NoRun

DoCalculatePreview(currentState, elapsedTime) ==
  /\ ~renderPending
  /\ \E out \in {calculatePreviewOf[currentState, plan, elapsedTime]} :
      /\ Call(out)
      /\ last' = Called("calculatePreview", Some(currentState), elapsedTime,
                        0, out)
      /\ UNCHANGED run

\* The render commits and the two sync effects run.
Rerender ==
  /\ renderPending
  /\ queueRef' = queue
  /\ executingWaypointsRef' = executingWaypoints
  /\ renderPending' = FALSE
  /\ last' = NoLast
  /\ UNCHANGED <<queue, executingWaypoints, previewLegs, plan, run, app>>

QNext ==
  \/ \E st \in LiveStates, n \in 0..MaxPlan, t \in StartTimes :
       DoStartExecution(st, n, t)
  \/ \E t \in CheckTimes, st \in LiveStates : DoCheckLegTransition(t, st)
  \/ DoCancelExecution
  \/ \E st \in LiveStates, t \in StartTimes : DoCalculatePreview(st, t)
  \/ Rerender

SpecQueue == QInit /\ [][QNext]_vars

(***************************************************************************)
(* The App (Spec): frames advance the clock while it plays, and the user   *)
(* clicks.  A frame's render commits first and its effects run in a later  *)
(* task; a click in between runs its handler, then React runs the pending  *)
(* effects, then renders what both have set.                               *)
(***************************************************************************)
Commit(w) ==
  /\ app' = AppOf(w)
  /\ queue' = w.queue
  /\ executingWaypoints' = w.executingWaypoints
  /\ previewLegs' = w.previewLegs
  /\ queueRef' = w.queueRef
  /\ executingWaypointsRef' = w.executingWaypointsRef
  /\ UNCHANGED <<renderPending, plan, last, run>>

Init ==
  /\ HookInit
  /\ app = AppOf(Mounted)
  /\ plan = << >>
  /\ last = NoLast
  /\ run = NoRun

\* TimeController's frame callback: advanceTime.
Advance(delta) ==
  /\ ~app.crashed /\ ~app.effectsPending
  /\ app.isPlaying
  /\ \E next \in {advanceSimulationTime(app.elapsedTime, delta,
                                         NumOrbits * Period)} :
       Commit([World EXCEPT
                 !.elapsedTime = next.time,
                 !.isPlaying = IF next.completed THEN FALSE ELSE @,
                 !.legClock = @ + (next.time - app.elapsedTime),
                 !.burnClock = @ + (next.time - app.elapsedTime),
                 !.ticks = @ + 1,
                 !.effectsPending = TRUE])

Tick(delta) == app.ticks < MaxTicks /\ Advance(delta)

FlushEffects ==
  /\ ~app.crashed /\ app.effectsPending
  /\ \E next \in {Settle(RunEffects(World, World))} : Commit(next)

\* A click: the handler's world, after the effects still pending.
afterClick(w, s) == Settle(IF w.effectsPending THEN RunEffects(w, s) ELSE s)
Click(handled) ==
  \E next \in {afterClick(World, [handled EXCEPT !.clicks = @ + 1])} :
    Commit(next)

CanClick == ~app.crashed /\ app.clicks < MaxClicks

PlayPause == CanClick /\ Click(togglePlaying(World))
Reset == CanClick /\ Click(handleReset(World))
ExecuteBurn(params) == CanClick /\ Click(handleExecuteBurn(World, params))
AddWaypoint == CanClick /\ Click(handleAddWaypoint(World))
DragWaypoint(i, position) ==
  /\ CanClick
  /\ i \in 1..Len(app.waypoints)
  /\ Click(handleWaypointChange(World, i, position))
ClearWaypoints == CanClick /\ Click(handleClearWaypoints(World))
ExecuteManeuver == CanClick /\ Click(executeManeuverButton(World))

Next ==
  \/ \E delta \in TickSteps : Tick(delta)
  \/ FlushEffects
  \/ PlayPause
  \/ Reset
  \/ \E params \in BurnParams : ExecuteBurn(params)
  \/ AddWaypoint
  \/ \E i \in 1..MAX_WAYPOINTS, position \in WaypointPositions :
       DragWaypoint(i, position)
  \/ ClearWaypoints
  \/ ExecuteManeuver

Spec == Init /\ [][Next]_vars

(***************************************************************************)
(* SpecMission: the App driven through a waypoint mission only (add,      *)
(* execute, play/pause, reset, frames of one length), which reaches       *)
(* missions of MAX_WAYPOINTS legs.                                         *)
(***************************************************************************)
MaxMissionTicks == 2
MaxMissionClicks == 6
MissionStep == 90

MissionCanClick == ~app.crashed /\ app.clicks < MaxMissionClicks
MissionTick == app.ticks < MaxMissionTicks /\ Advance(MissionStep)
MissionPlayPause == MissionCanClick /\ Click(togglePlaying(World))
MissionReset == MissionCanClick /\ Click(handleReset(World))
MissionAddWaypoint == MissionCanClick /\ Click(handleAddWaypoint(World))
MissionExecute == MissionCanClick /\ Click(executeManeuverButton(World))

MissionNext ==
  \/ MissionTick
  \/ FlushEffects
  \/ MissionPlayPause
  \/ MissionReset
  \/ MissionAddWaypoint
  \/ MissionExecute

SpecMission == Init /\ [][MissionNext]_vars

(***************************************************************************)
(* SpecFarWaypoint: a waypoint mission left to run, with no pause, reset   *)
(* or cancel: waypoints are added, dragged (also to a position whose leg   *)
(* takes longer than the display duration) and executed, and frames pass.  *)
(***************************************************************************)
MaxFarTicks == 3
MaxFarClicks == 4
\* 150 m from the deputy's initial position: a leg of 300 s, with
\* NumOrbits * Period = 240 s of display.
FarPosition == Vec(0, 140, 0)
FarDragPositions == WaypointPositions \cup {FarPosition}

FarCanClick == ~app.crashed /\ app.clicks < MaxFarClicks
FarTick == app.ticks < MaxFarTicks /\ Advance(MissionStep)
FarAddWaypoint == FarCanClick /\ Click(handleAddWaypoint(World))
FarDragWaypoint(i, position) ==
  /\ FarCanClick
  /\ i \in 1..Len(app.waypoints)
  /\ Click(handleWaypointChange(World, i, position))
FarExecute == FarCanClick /\ Click(executeManeuverButton(World))

FarNext ==
  \/ FarTick
  \/ FlushEffects
  \/ FarAddWaypoint
  \/ \E i \in 1..MAX_WAYPOINTS, position \in FarDragPositions :
       FarDragWaypoint(i, position)
  \/ FarExecute

SpecFarWaypoint == Init /\ [][FarNext]_vars

\* C27 (its safety part): while a queue executes, the clock is not stopped
\* by the duration clamp (time held at the display duration, playing set to
\* false) before the active leg's transferTime is reached; with no pause in
\* this specification, a stopped clock is a clamped one.
C27_ClockNotClampedInLeg ==
  (/\ queue # Null
   /\ ~app.crashed
   /\ ~app.isPlaying
   /\ app.elapsedTime = NumOrbits * Period)
    => app.elapsedTime >= currentLegOf(queue[1]).transferTime

(***************************************************************************)
(* SpecRequests: the waypoint mission with add requests that may arrive    *)
(* in pairs, the second handled by the callback of the same render as the  *)
(* first (onAddRef.current is replaced only by the effect of the next      *)
(* render).                                                                *)
(***************************************************************************)
addRequested(s) == [handleAddWaypoint(s) EXCEPT !.clicks = @ + 1]
MissionAddTwice ==
  /\ ~app.crashed /\ app.clicks + 1 < MaxMissionClicks
  /\ Click(handleAddWaypoint(addRequested(World)))

RequestsNext ==
  \/ MissionNext
  \/ MissionAddTwice

SpecRequests == Init /\ [][RequestsNext]_vars

\* C13: a press of Execute Maneuver while the validation list holds an
\* error does not invoke startExecution, and the queue that a press creates
\* comes from a waypoint set that validates without error against the
\* queue's own legs.
C13_ExecutionGated ==
  /\ (/\ app.pressed # Null
      /\ app.pressed[1].errors # << >> \/ app.pressed[1].shown # << >>)
     => (~app.pressed[1].invoked /\ app.started = Null)
  /\ app.started # Null => app.started[1].errors = << >>

\* Execute Maneuver pressed on a waypoint set with an error: nothing starts.
C13_Witness ==
  /\ app.pressed # Null
  /\ app.pressed[1].errors # << >>
  /\ Len(app.waypoints) > 0
  /\ queue = Null /\ app.started = Null

\* C17: after a single-point burn with circumnavigation enabled the deputy
\* state comes from the propagator until transferTime seconds of simulated
\* time have passed since that burn, and from calculateFMCState with
\* timeSinceModeEntry = (time since the burn - transferTime) from then on;
\* with circumnavigation disabled, or without a single-point config, the
\* FMC state is never used.
C17_CircumnavigationEntry ==
  fmcElapsed(app.elapsedTime, app.maneuverConfig) =
    IF /\ app.maneuverConfig # Null
       /\ app.maneuverConfig[1].fmc
       /\ app.burnClock >= app.maneuverConfig[1].transferTime
    THEN Some(app.burnClock - app.maneuverConfig[1].transferTime)
    ELSE Null

\* C26: after each successful startExecution and each 'continue' transition
\* the deputy is propagated from the state that operation returned, also when
\* an earlier queue has completed before.
C26_BurnAdopted ==
  /\ app.started # Null => app.started[1].origin = app.started[1].returned
  /\ (app.fired # Null /\ app.fired[1].type = "continue")
       => app.fired[1].origin = app.fired[1].returned

\* C28: a queue is only started from Idle: whenever startExecution has
\* stored a queue, no queue was executing at the call (the one before it had
\* completed, aborted or been cancelled).
C28_StartedFromIdle ==
  app.started # Null => ~app.started[1].whileExecuting

\* C29: the phase startExecution stores as startTheta, and as the initial
\* currentTheta, is the simulation clock's phase at the call: the clock's
\* base phase advanced by its elapsed time.
C29_StartThetaIsClockPhase ==
  app.started # Null =>
    /\ app.started[1].startTheta = app.started[1].clockTheta
    /\ app.started[1].currentTheta = app.started[1].clockTheta

\* C30: in every settled state (no effect pending) the preview has one leg
\* per live waypoint; with no live waypoint the preview is empty and the
\* reported total delta-v is 0.
C30_PreviewFollowsWaypoints ==
  (~app.crashed /\ ~app.effectsPending) =>
    /\ Len(previewLegs) = Len(app.waypoints)
    /\ Len(app.waypoints) = 0 =>
         previewLegs = << >> /\ totalDeltaVIsZero(previewLegs)

(***************************************************************************)
(* SpecPlanner: the planning utilities applied to inputs drawn from       *)
(* bounded sets; `plan' holds the arguments, `last' the application.       *)
(***************************************************************************)
MaxValidated == 3
ValidatorPositions == {Vec(0, 0, 0), Vec(0, 5, 0), Vec(0, 20, 0)}
MkLeg(deltaV, arrivalDeltaV) ==
  [targetPosition |-> ZeroVec, transferTime |-> MIN_TRANSFER_TIME,
   deltaV |-> deltaV, arrivalDeltaV |-> arrivalDeltaV]
\* One leg under the ceiling, one over it only by the sum of its two burns.
ValidatorLegs == {MkLeg(Vec(1, 0, 0), Vec(0, 1, 0)),
                  MkLeg(Vec(6, 0, 0), Vec(0, 6, 0))}
ListsOf(S, n) == UNION {[1..k -> S] : k \in 0..n}

\* The inputs: one application per behaviour, its arguments held in `plan'.
ValidateInputs ==
  [fn : {"validateWaypoints"},
   currentPosition : ValidatorPositions,
   positions : ListsOf(ValidatorPositions, MaxValidated),
   legs : ListsOf(ValidatorLegs, MaxValidated)]
\* Targets on the cross-track axis, within the stationary threshold of it,
\* and away from it.
FMCTargets == {ZeroVec, Vec(0, 0, 5), <<Q(0), <<1, 2000>>, Q(7)>>,
               <<<<-1, 2000>>, <<1, 2000>>, Q(0)>>, Vec(3, 4, 0),
               <<<<1, 1000>>, Q(0), Q(0)>>}
FMCTimes == {0, 30, 45, 60, 90, 150}
FMCMeanMotions == {Q(0), MeanMotion, Q(1)}
FMCInputs ==
  [fn : {"calculateFMCState"}, targetPosition : FMCTargets,
   elapsedTimeSinceFMC : FMCTimes, meanMotion : FMCMeanMotions]

\* Departure states, targets and phases for the leg planner and the
\* targeting solver; the phases lie in cells of either coupling.
PlannerStates == LiveStates \cup {[position |-> Vec(0, 30, 0),
                                   velocity |-> Vec(1, 0, -1)]}
PlannerTargets == WaypointPositions \cup {Vec(20, 0, 10), Vec(-5, 40, 3)}
PlannerThetas == {0, 30, 60, 90}
PlannerTransferTimes == {60, 100, 120, 150}
LegInputs ==
  [fn : {"calculateLegManeuver"}, state : PlannerStates,
   targetPosition : PlannerTargets, theta : PlannerThetas]
BurnInputs ==
  [fn : {"calculateRendezvousBurn"}, initialState : PlannerStates,
   targetPosition : PlannerTargets, transferTime : PlannerTransferTimes,
   currentTheta : PlannerThetas]

STMInputs ==
  [fn : {"getSTMComponents"}, state : PlannerStates,
   theta0 : PlannerThetas, deltaTime : PlannerTransferTimes]

\* The queues the sampler is rendered with, and the state it is given with
\* each: what startExecution stores and returns, and what checkLegTransition
\* does at each arrival after that.
StartedCases ==
  {[initialState |-> out.ret[1], queue |-> out.queue[1],
    waypoints |-> out.executingWaypoints] :
     out \in {startExecutionOf[st, ps, t] :
                st \in LiveStates, ps \in Prefixes \ {<< >>}, t \in StartTimes}
             \ {NoCall, ThrownCall}}
arrivalOf(c) ==
  checkLegTransition(
    Some(c.queue), c.waypoints, currentLegOf(c.queue).transferTime,
    propagateYA(c.initialState, c.queue.currentTheta,
                trueAnomalyAtTime(c.queue.currentTheta,
                                  currentLegOf(c.queue).transferTime),
                currentLegOf(c.queue).transferTime))
ContinuedCases(cases) ==
  {[initialState |-> x.out.ret[1].newState, queue |-> x.out.queue[1],
    waypoints |-> x.c.waypoints] :
     x \in {y \in {[c |-> c, out |-> arrivalOf(c)] : c \in cases} :
              y.out.queue # Null}}
TrajectoryCases ==
  StartedCases \cup ContinuedCases(StartedCases)
               \cup ContinuedCases(ContinuedCases(StartedCases))
TrajectoryOrbits == {1, 2, 3}
TrajectoryInputs ==
  {[fn |-> "computeWaypointTrajectory", initialState |-> c.initialState,
    queue |-> c.queue, numOrbits |-> n] :
     c \in TrajectoryCases, n \in TrajectoryOrbits}

PlannerInputs ==
  ValidateInputs \cup FMCInputs \cup LegInputs \cup BurnInputs \cup STMInputs
    \cup TrajectoryInputs

PlannerInit ==
  /\ HookInit
  /\ app = AppOf(Unmounted)
  /\ plan \in PlannerInputs
  /\ last = NoLast
  /\ run = NoRun

Applied(op, out) ==
  /\ plan.fn = op
  /\ last = NoLast
  /\ last' = [op |-> op, out |-> out]
  /\ UNCHANGED <<hookVars, plan, run, app>>

ApplyValidateWaypoints ==
  Applied("validateWaypoints",
          validateWaypoints(plan.currentPosition, MkWaypoints(plan.positions),
                            plan.legs))

ApplyCalculateFMCState ==
  Applied("calculateFMCState",
          calculateFMCState(plan.targetPosition, plan.elapsedTimeSinceFMC,
                            plan.meanMotion))

ApplyCalculateLegManeuver ==
  Applied("calculateLegManeuver",
          calculateLegManeuver(plan.state, plan.targetPosition, plan.theta))

ApplyCalculateRendezvousBurn ==
  Applied("calculateRendezvousBurn",
          calculateRendezvousBurn(plan.initialState, plan.targetPosition,
                                  plan.transferTime, plan.currentTheta))

ApplyGetSTMComponents ==
  Applied("getSTMComponents",
          getSTMComponents(plan.theta0,
                           trueAnomalyAtTime(plan.theta0, plan.deltaTime),
                           plan.deltaTime))

ApplyComputeWaypointTrajectory ==
  Applied("computeWaypointTrajectory",
          computeWaypointTrajectory(plan.initialState, plan.queue,
                                    plan.numOrbits))

PlannerNext ==
  \/ ApplyValidateWaypoints
  \/ ApplyCalculateFMCState
  \/ ApplyCalculateLegManeuver
  \/ ApplyCalculateRendezvousBurn
  \/ ApplyGetSTMComponents
  \/ ApplyComputeWaypointTrajectory

SpecPlanner == PlannerInit /\ [][PlannerNext]_vars

(***************************************************************************)
(* Properties of the planning utilities (SpecPlanner).                     *)
(***************************************************************************)
Count(errors, type, index) ==
  Cardinality({k \in 1..Len(errors) :
                 errors[k].type = type /\ errors[k].waypointIndex = index})
PrevPosition(currentPosition, positions, i) ==
  IF i = 1 THEN currentPosition ELSE positions[i - 1]

\* C14: validateWaypoints returns one 'too_close' for every index closer to
\* its predecessor (the current position for the first) than the minimum
\* separation, one 'overlapping' for every pair i < j closer than the same
\* minimum (carried by index j), one 'high_delta_v' for every index that
\* has a leg whose departure plus arrival burn exceeds the ceiling, and
\* nothing else.
C14_ValidatorComplete ==
  last.op = "validateWaypoints" =>
    /\ \A i \in 1..Len(plan.positions) :
         /\ Count(last.out, "too_close", i - 1) =
              IF tooClose(PrevPosition(plan.currentPosition,
                                       plan.positions, i),
                          plan.positions[i]) THEN 1 ELSE 0
         /\ Count(last.out, "overlapping", i - 1) =
              Cardinality({k \in 1..(i - 1) :
                             tooClose(plan.positions[k], plan.positions[i])})
         /\ Count(last.out, "high_delta_v", i - 1) =
              IF i <= Len(plan.legs) /\ legDeltaVTooHigh(plan.legs[i])
              THEN 1 ELSE 0
    /\ \A k \in 1..Len(last.out) :
         /\ last.out[k].type \in {"too_close", "overlapping", "high_delta_v"}
         /\ last.out[k].waypointIndex \in 0..(Len(plan.positions) - 1)

\* Three waypoints on top of the deputy with an expensive leg: every rule
\* is violated at once, the last waypoint overlapping both earlier ones.
C14_Witness ==
  /\ last.op = "validateWaypoints"
  /\ Count(last.out, "overlapping", 2) = 2
  /\ Count(last.out, "too_close", 0) = 1
  /\ \E i \in 0..2 : Count(last.out, "high_delta_v", i) = 1

\* The consecutive pairs (k, k + 1) closer than the minimum separation, and
\* an input on which no other rule is violated.
ClosePairs(positions) ==
  {k \in 1..(Len(positions) - 1) : tooClose(positions[k], positions[k + 1])}
OtherwiseValid(currentPosition, positions, legs) ==
  /\ Len(positions) >= 1
  /\ ~tooClose(currentPosition, positions[1])
  /\ \A i, j \in 1..Len(positions) :
       j > i + 1 => ~tooClose(positions[i], positions[j])
  /\ \A i \in 1..Len(legs) : ~legDeltaVTooHigh(legs[i])
C15_Case ==
  /\ last.op = "validateWaypoints"
  /\ OtherwiseValid(plan.currentPosition, plan.positions, plan.legs)

\* C15 (as stated): with exactly one consecutive pair closer than the
\* minimum separation and nothing else wrong, validateWaypoints returns
\* exactly one error, 'too_close' or 'overlapping', on a waypoint of the
\* pair; with no such pair it returns the empty list.
C15_OneErrorForClosePair ==
  C15_Case =>
    /\ ClosePairs(plan.positions) = {} => last.out = << >>
    /\ \A k \in 1..(Len(plan.positions) - 1) :
         ClosePairs(plan.positions) = {k} =>
           /\ Len(last.out) = 1
           /\ last.out[1].type \in {"too_close", "overlapping"}
           /\ last.out[1].waypointIndex \in {k - 1, k}

\* C15 (amended): with exactly one consecutive pair closer than the minimum
\* separation and nothing else wrong, validateWaypoints returns exactly two
\* errors, an 'overlapping' and a 'too_close', both on the later waypoint
\* of the pair; with no such pair it returns the empty list.
C15_TwoErrorsForClosePair ==
  C15_Case =>
    /\ ClosePairs(plan.positions) = {} => last.out = << >>
    /\ \A k \in 1..(Len(plan.positions) - 1) :
         ClosePairs(plan.positions) = {k} =>
           last.out = <<[type |-> "overlapping", waypointIndex |-> k],
                        [type |-> "too_close", waypointIndex |-> k]>>

\* The second and third of three waypoints are the one close pair.
C15_Witness ==
  /\ C15_Case
  /\ ClosePairs(plan.positions) = {2}
  /\ Len(last.out) = 2

\* C18: for a target whose radius in the radial/in-track plane is below the
\* stationary threshold, (0,0,0) among them, calculateFMCState returns the
\* target position and zero velocity, whatever the time since mode entry
\* and the mean motion.
BelowStationaryThreshold(targetPosition) ==
  QLt(QAdd(QMul(targetPosition[1], targetPosition[1]),
           QMul(targetPosition[2], targetPosition[2])),
      <<1, 1000000>>)
C18_FMCDegeneracy ==
  (/\ last.op = "calculateFMCState"
   /\ BelowStationaryThreshold(plan.targetPosition))
  => last.out = [position |-> plan.targetPosition, velocity |-> ZeroVec]

\* A target half a millimetre off the axis, a quarter of a period into the
\* mode, with the mean motion of the orbit.
C18_Witness ==
  /\ last.op = "calculateFMCState"
  /\ plan.targetPosition = <<Q(0), <<1, 2000>>, Q(7)>>
  /\ plan.elapsedTimeSinceFMC = 30
  /\ plan.meanMotion = MeanMotion
  /\ last.out.position = plan.targetPosition

\* The state the propagator gives for the leg that calculateLegManeuver
\* returned: the departure burn applied, then the coast of the leg.
PropagatedArrival ==
  propagateYA(applyBurn(plan.state, last.out.leg.deltaV), plan.theta,
              trueAnomalyAtTime(plan.theta, last.out.leg.transferTime),
              last.out.leg.transferTime)
C19_Case == last.op = "calculateLegManeuver" /\ ~last.out.thrown

\* C19 (as stated): the arrival state that calculateLegManeuver returns is
\* stationary: the propagated arrival position with velocity (0,0,0).
C19_StationaryArrivalState ==
  C19_Case =>
    /\ last.out.arrivalState.position = PropagatedArrival.position
    /\ last.out.arrivalState.velocity = ZeroVec

\* C19 (amended): the arrival state that calculateLegManeuver returns is
\* the state as propagated: the propagated arrival position with the
\* propagated arrival velocity, which the leg's arrival burn negates.
C19_PropagatedArrivalState ==
  C19_Case =>
    /\ last.out.arrivalState = PropagatedArrival
    /\ addVectors(last.out.arrivalState.velocity,
                  last.out.leg.arrivalDeltaV) = ZeroVec
    /\ last.out.nextTheta =
         trueAnomalyAtTime(plan.theta, last.out.leg.transferTime)

\* A leg that arrives with velocity left to null.
C19_Witness ==
  /\ C19_Case
  /\ last.out.arrivalState.velocity # ZeroVec
  /\ last.out.arrivalState.position = plan.targetPosition

\* C20: when the velocity-to-position block is not singular, the initial
\* velocity plus the deltaV of calculateRendezvousBurn, propagated for
\* transferTime from theta0, ends at the target position.
C20_TargetingExact ==
  (last.op = "calculateRendezvousBurn" /\ ~last.out.thrown) =>
    propagateYA(applyBurn(plan.initialState, last.out.deltaV),
                plan.currentTheta,
                trueAnomalyAtTime(plan.currentTheta, plan.transferTime),
                plan.transferTime).position = plan.targetPosition

\* A burn solved in a cell where cross-track velocity couples into the
\* radial position, towards a target off both axes.
C20_Witness ==
  /\ last.op = "calculateRendezvousBurn" /\ ~last.out.thrown
  /\ Coupling(plan.currentTheta) = 1
  /\ plan.targetPosition = Vec(20, 0, 10)
  /\ last.out.deltaV # ZeroVec

\* C21: the matrices that getSTMComponents builds from the unit probes give
\* the final position of any state: Phi_rr * position + Phi_rv * velocity is
\* the position reached by propagating the state directly.
C21_LinearityRoundTrip ==
  last.op = "getSTMComponents" =>
    addVectors(multiplyMatrixVector(last.out.Phi_rr, plan.state.position),
               multiplyMatrixVector(last.out.Phi_rv, plan.state.velocity))
    = propagateYA(plan.state, plan.theta0,
                  trueAnomalyAtTime(plan.theta0, plan.deltaTime),
                  plan.deltaTime).position

\* A state with cross-track velocity, in a cell where it couples into the
\* radial position, over a time that moves it.
C21_Witness ==
  /\ last.op = "getSTMComponents"
  /\ Coupling(plan.theta0) = 1
  /\ plan.state.velocity[3] # QZero
  /\ last.out.Phi_rv[1][3] # QZero

\* C22: for every leg of calculateLegManeuver, the velocity reached by
\* propagating the state after the departure burn for transferTime, plus
\* the leg's arrivalDeltaV, is (0,0,0).
C22_ArrivalBurnNullsVelocity ==
  (last.op = "calculateLegManeuver" /\ ~last.out.thrown) =>
    addVectors(
      propagateYA(applyBurn(plan.state, last.out.leg.deltaV), plan.theta,
                  trueAnomalyAtTime(plan.theta, last.out.leg.transferTime),
                  last.out.leg.transferTime).velocity,
      last.out.leg.arrivalDeltaV) = ZeroVec

\* A leg flown from a moving state, with an arrival burn on every axis.
C22_Witness ==
  /\ last.op = "calculateLegManeuver" /\ ~last.out.thrown
  /\ plan.state.velocity # ZeroVec
  /\ \A k \in 1..3 : last.out.leg.arrivalDeltaV[k] # QZero

\* The sampler has been applied to a queue.
C24_Case == plan.fn = "computeWaypointTrajectory" /\ last # NoLast

\* Transfer time of the legs i..n-1 (0-indexed) of a queue.
RECURSIVE TimeOfLegs(_, _, _)
TimeOfLegs(q, i, n) ==
  IF i >= n THEN 0 ELSE q.legs[i + 1].transferTime + TimeOfLegs(q, i + 1, n)

\* Where and at which phase leg i departs, as the queue and the given state
\* say: the current leg from the given state, a later one from rest at the
\* waypoint before it with its departure burn.
DepartureOf(initialState, q, i) ==
  IF i = q.currentLegIndex THEN initialState
  ELSE [position |-> q.legs[i].targetPosition, velocity |-> q.legs[i + 1].deltaV]
DepartureTheta(q, i) == q.currentTheta + TimeOfLegs(q, q.currentLegIndex, i)

\* Samples of the remaining legs, and display time left after them.
LegSampleCount(q) == (Len(q.legs) - q.currentLegIndex) * (POINTS_PER_LEG + 1)
DisplayLeft(q, numOrbits) ==
  numOrbits * Period - TimeOfLegs(q, q.currentLegIndex, Len(q.legs))

\* C24: the trajectory sampler emits POINTS_PER_LEG + 1 samples for each leg
\* from currentLegIndex on and for no earlier leg, in leg order, each leg's
\* samples on the arc from its departure; what follows are free-flight samples
\* from rest at the final waypoint, present only when display time remains
\* after the legs; the result is bounded by the display duration.
C24_TrajectorySamples ==
  C24_Case =>
    /\ Len(last.out) >= LegSampleCount(plan.queue)
    /\ \A i \in plan.queue.currentLegIndex..(Len(plan.queue.legs) - 1) :
         \A j \in 0..POINTS_PER_LEG :
           last.out[(i - plan.queue.currentLegIndex) * (POINTS_PER_LEG + 1)
                    + j + 1]
             = samplePoint(DepartureOf(plan.initialState, plan.queue, i),
                           DepartureTheta(plan.queue, i),
                           (j * plan.queue.legs[i + 1].transferTime)
                             \div POINTS_PER_LEG)
    /\ Len(last.out) > LegSampleCount(plan.queue)
         => DisplayLeft(plan.queue, plan.numOrbits) > 0
    /\ \A m \in 1..(Len(last.out) - LegSampleCount(plan.queue)) :
         last.out[LegSampleCount(plan.queue) + m]
           = samplePoint(
               stationaryState(
                 plan.queue.legs[Len(plan.queue.legs)].targetPosition),
               DepartureTheta(plan.queue, Len(plan.queue.legs)),
               (m * Period) \div TRAJECTORY_POINTS_PER_ORBIT)
    /\ Len(last.out) <= LegSampleCount(plan.queue)
                          + plan.numOrbits * TRAJECTORY_POINTS_PER_ORBIT

\* Sampled with a completed leg behind the current one and later legs ahead,
\* with free flight after the legs.
C24_Witness ==
  /\ C24_Case
  /\ plan.queue.currentLegIndex = 1
  /\ Len(plan.queue.legs) = 3
  /\ Len(last.out) > LegSampleCount(plan.queue)

\* Sampled with no display time left after the legs: leg samples only.
C24_WitnessNoFreeFlight ==
  /\ C24_Case
  /\ plan.queue.currentLegIndex > 0
  /\ DisplayLeft(plan.queue, plan.numOrbits) <= 0
  /\ Len(last.out) = LegSampleCount(plan.queue)

(***************************************************************************)
(* Properties of the waypoint requests (SpecRequests).                     *)
(***************************************************************************)

\* C16: whatever add, execute and reset requests were handled, also when
\* several add requests are handled before the component renders again,
\* the live waypoint list holds at most MAX_WAYPOINTS waypoints (an add
\* request at the bound adds nothing).
C16_WaypointBound == Len(app.waypoints) <= MAX_WAYPOINTS

(***************************************************************************)
(* Properties of the waypoint mission (SpecMission).                       *)
(***************************************************************************)

\* C12: when a transition is due onto the leg at currentLegIndex + 1 and the
\* executing-waypoint snapshot has no entry for it, the queue is destroyed
\* and the snapshot cleared, no 'continue' or 'complete' result is
\* produced, no burn is applied and the leg clock is not restarted.
C12_InvalidQueueState ==
  app.missing # Null =>
    /\ app.missing[1].ret = Null
    /\ app.missing[1].queue = Null
    /\ app.missing[1].executingWaypoints = << >>
    /\ ~app.missing[1].burned
    /\ ~app.missing[1].retimed

\* The second transition of a three-leg mission, after a Reset that raced
\* the first one left the queue without its snapshot.
C12_Witness ==
  /\ app.missing # Null
  /\ app.missing[1].index = 1
  /\ queue = Null /\ executingWaypoints = << >>

(***************************************************************************)
(* Properties of the queue hook (SpecQueue).  In the state right after a   *)
(* call (renderPending), queue and executingWaypoints are what the call    *)
(* left and queueRef and executingWaypointsRef are still what it read.     *)
(***************************************************************************)
JustCalled(op) == renderPending /\ last.op = op
Returned(op) == JustCalled(op) /\ ~last.thrown

\* C1: an execution started with N >= 1 waypoints and driven through its
\* legs yields 'continue' for each of its first N-1 transitions and
\* 'complete' for the N-th, never more than N results, and the queue is
\* absent exactly once all N results are in.
C1_QueueCompletion ==
  run.n >= 1 =>
    /\ Len(run.results) <= run.n
    /\ \A i \in 1..Len(run.results) :
         run.results[i] = IF i < run.n THEN "continue" ELSE "complete"
    /\ (queue = Null) <=> (Len(run.results) = run.n)
    /\ queue # Null => queue[1].currentLegIndex = Len(run.results)

C1_Witness ==
  /\ run.n = MaxPlan
  /\ run.results = [i \in 1..MaxPlan |->
                      IF i < MaxPlan THEN "continue" ELSE "complete"]
  /\ queue = Null

\* C2: a queue object, wherever it is held, has at least one leg and a
\* currentLegIndex within its legs; before any execution there is none.
WellFormed(q) ==
  q # Null => /\ Len(q[1].legs) >= 1
              /\ q[1].currentLegIndex >= 0
              /\ q[1].currentLegIndex < Len(q[1].legs)

C2_QueueIndexInvariant ==
  /\ WellFormed(queue)
  /\ WellFormed(queueRef)
  /\ run.n = 0 => queue = Null

C2_Witness ==
  /\ queue # Null
  /\ Len(queue[1].legs) = MaxPlan
  /\ queue[1].currentLegIndex = MaxPlan - 1

\* C5: after cancelExecution, from any state, the queue is absent and the
\* executing-waypoint snapshot and the preview legs are empty, and calling
\* it again would leave that state as it is.
C5_CancelIdempotent ==
  JustCalled("cancelExecution") =>
    /\ queue = Null /\ executingWaypoints = << >> /\ previewLegs = << >>
    /\ ~last.thrown /\ last.ret = Null
    /\ cancelExecution.setQueue => cancelExecution.queue = queue
    /\ cancelExecution.setExecutingWaypoints =>
         cancelExecution.executingWaypoints = executingWaypoints
    /\ cancelExecution.setPreviewLegs =>
         cancelExecution.previewLegs = previewLegs

\* cancelExecution called while executing a leg after the first.
C5_Witness ==
  /\ JustCalled("cancelExecution")
  /\ queueRef # Null
  /\ queueRef[1].currentLegIndex >= 1
  /\ executingWaypointsRef # << >>

\* C7: checkLegTransition with no queue, or with an elapsed time below the
\* current leg's transferTime, returns nothing and leaves the queue and the
\* executing-waypoint snapshot as they were; with a queue and an elapsed
\* time of at least the transferTime it returns a result (unless planning
\* the next leg fails).
C7_Fires == queueRef # Null /\ last.time >= currentLegOf(queueRef[1]).transferTime

C7_NoOpUntilDue ==
  JustCalled("checkLegTransition") =>
    IF C7_Fires
    THEN ~last.thrown => last.ret # Null /\ queue # queueRef
    ELSE /\ ~last.thrown /\ last.ret = Null
         /\ queue = queueRef
         /\ executingWaypoints = executingWaypointsRef

\* A call one second early, and a call at exactly the transferTime.
C7_Witness ==
  /\ Returned("checkLegTransition")
  /\ queueRef # Null
  /\ last.time = currentLegOf(queueRef[1]).transferTime
  /\ last.ret # Null

C7_WitnessEarly ==
  /\ Returned("checkLegTransition")
  /\ queueRef # Null
  /\ last.time = currentLegOf(queueRef[1]).transferTime - 1
  /\ last.ret = Null

\* C8: startExecution with n >= 1 waypoints (returning normally) stores a
\* queue of n legs, leg i targeting waypoint i, at currentLegIndex 0 with
\* currentTheta = startTheta; leg 0 is the leg planned from the caller's
\* current state at startTheta; it snapshots the waypoints, and returns
\* the current position with the current velocity plus leg 0's deltaV.
C8_StartExecution ==
  Returned("startExecution") /\ last.n >= 1 =>
    /\ queue # Null /\ last.ret # Null
    /\ LET q == queue[1]
           currentState == last.currentState[1]
       IN  /\ Len(q.legs) = last.n
           /\ \A i \in 1..last.n : q.legs[i].targetPosition = plan[i]
           /\ q.currentLegIndex = 0
           /\ q.currentTheta = q.startTheta
           /\ q.legs[1] =
                calculateLegManeuver(currentState, plan[1], q.startTheta).leg
           /\ executingWaypoints = MkWaypoints(SubSeq(plan, 1, last.n))
           /\ last.ret[1] =
                [position |-> currentState.position,
                 velocity |-> addVectors(currentState.velocity,
                                         q.legs[1].deltaV)]

\* Three waypoints, started by the drifting deputy.
C8_Witness ==
  /\ Returned("startExecution")
  /\ last.n = MaxPlan
  /\ last.currentState[1].velocity # ZeroVec
  /\ queue # Null
  /\ queue[1].legs[1].deltaV # ZeroVec

\* C9: a checkLegTransition that fires with a next leg to go (and returns)
\* stores the queue with currentLegIndex one higher, currentTheta advanced
\* from the old one by the finished leg's transferTime, the leg at the new
\* index replaced by the leg planned from rest at the live position toward
\* the snapshot waypoint of that index, every other leg and startTheta as
\* they were, and returns 'continue' with the live position, the fresh
\* leg's deltaV as velocity, and the new currentTheta.
C9_Fired == JustCalled("checkLegTransition") /\ C7_Fires

C9_ContinueTransition ==
  /\ C9_Fired
  /\ queueRef[1].currentLegIndex + 1 < Len(queueRef[1].legs)
  /\ ~last.thrown
  => /\ queue # Null /\ last.ret # Null
     /\ LET old == queueRef[1]
            new == queue[1]
            live == last.currentState[1]
            k == old.currentLegIndex + 2
            theta == trueAnomalyAtTime(old.currentTheta,
                                       currentLegOf(old).transferTime)
            fresh == calculateLegManeuver(
                       [position |-> live.position, velocity |-> ZeroVec],
                       executingWaypointsRef[k].position, theta).leg
        IN  /\ new.currentLegIndex = old.currentLegIndex + 1
            /\ new.currentTheta = theta
            /\ new.legs[k] = fresh
            /\ Len(new.legs) = Len(old.legs)
            /\ \A i \in 1..Len(old.legs) : i # k => new.legs[i] = old.legs[i]
            /\ new.startTheta = old.startTheta
            /\ executingWaypoints = executingWaypointsRef
            /\ last.ret[1] = [type |-> "continue",
                              newState |-> [position |-> live.position,
                                            velocity |-> fresh.deltaV],
                              nextTheta |-> theta]

\* The second transition of three, the fresh leg differing from the planned.
C9_Witness ==
  /\ Returned("checkLegTransition")
  /\ queueRef # Null /\ queue # Null
  /\ queue[1].currentLegIndex = MaxPlan - 1
  /\ queue[1].legs[MaxPlan] # queueRef[1].legs[MaxPlan]
  /\ last.ret # Null

\* C10: a checkLegTransition that fires on the last leg clears the queue
\* and the executing-waypoint snapshot and returns 'complete' with the
\* live position, zero velocity, and currentTheta advanced by the last
\* leg's transferTime.
C10_CompleteTransition ==
  /\ C9_Fired
  /\ queueRef[1].currentLegIndex + 1 >= Len(queueRef[1].legs)
  => /\ ~last.thrown
     /\ queue = Null
     /\ executingWaypoints = << >>
     /\ last.ret =
          Some([type |-> "complete",
                newState |-> [position |-> last.currentState[1].position,
                              velocity |-> ZeroVec],
                nextTheta |->
                  trueAnomalyAtTime(queueRef[1].currentTheta,
                                    currentLegOf(queueRef[1]).transferTime)])

\* The last of three legs completed by the drifting deputy.
C10_Witness ==
  /\ Returned("checkLegTransition")
  /\ queueRef # Null
  /\ queueRef[1].currentLegIndex = MaxPlan - 1
  /\ last.currentState[1].velocity # ZeroVec
  /\ queue = Null

\* C11: when the velocity-to-position block of the leg to be solved has a
\* determinant below the tolerance, the solver gives an error and no deltaV,
\* the error leaves startExecution or checkLegTransition, and the queue
\* (with its leg index), the executing-waypoint snapshot and the preview
\* are exactly what they were before the call.
SingularFor(state, targetPosition, theta) ==
  isSingular(getSTMComponents(
               theta,
               trueAnomalyAtTime(theta, calculateTransferTime(state.position,
                                                              targetPosition)),
               calculateTransferTime(state.position, targetPosition)).Phi_rv)

C11_NextLegSingular ==
  /\ C9_Fired
  /\ queueRef[1].currentLegIndex + 1 < Len(queueRef[1].legs)
  /\ SingularFor(stationaryState(last.currentState[1].position),
                 executingWaypointsRef[queueRef[1].currentLegIndex + 2].position,
                 trueAnomalyAtTime(queueRef[1].currentTheta,
                                   currentLegOf(queueRef[1]).transferTime))

C11_SingularIsFatal ==
  /\ \A st \in LiveStates, target \in WaypointPositions, t \in StartTimes :
       SingularFor(st, target, t) =>
         calculateRendezvousBurn(st, target,
           calculateTransferTime(st.position, target), t) = Thrown
  /\ (/\ JustCalled("startExecution") /\ last.n >= 1
      /\ SingularFor(last.currentState[1], plan[1],
                     trueAnomalyAtTime(0, last.time))) => last.thrown
  /\ C11_NextLegSingular => last.thrown
  /\ (/\ JustCalled("startExecution") \/ JustCalled("checkLegTransition")
      /\ last.thrown)
     => /\ last.ret = Null
        /\ queue = queueRef
        /\ executingWaypoints = executingWaypointsRef

\* A transition onto a leg that cannot be solved, with a queue in progress.
C11_Witness ==
  /\ C11_NextLegSingular
  /\ last.thrown
  /\ queueRef # Null /\ queue = queueRef


\* C23: every leg of the preview and of the queue, the legs refreshed at a
\* transition and the legs between coincident positions among them, has a
\* transferTime of at least the minimum transfer time, which is positive.
FlooredLegs(legs) ==
  \A k \in 1..Len(legs) : legs[k].transferTime >= MIN_TRANSFER_TIME
C23_TransferTimeFloor ==
  /\ MIN_TRANSFER_TIME > 0
  /\ FlooredLegs(previewLegs)
  /\ queue # Null => FlooredLegs(queue[1].legs)
  /\ \A a, b \in WaypointPositions :
       calculateTransferTime(a, b) >= MIN_TRANSFER_TIME

\* A queue past its first transition whose active leg was refreshed, with a
\* later leg between two waypoints at the same position.
C23_Witness ==
  /\ queue # Null
  /\ queue[1].currentLegIndex >= 1
  /\ \E k \in 1..(Len(queue[1].legs) - 1) :
       /\ queue[1].legs[k].targetPosition = queue[1].legs[k + 1].targetPosition
       /\ queue[1].legs[k + 1].transferTime = MIN_TRANSFER_TIME
  /\ Len(previewLegs) > 0

\* C25: startExecution with an empty waypoint list returns nothing, throws
\* nothing and creates no queue: the queue and the executing-waypoint
\* snapshot are what they were at the call (what the refs still hold).
C25_EmptyStartIsNoOp ==
  JustCalled("startExecution") /\ last.n = 0 =>
    /\ last.ret = Null
    /\ ~last.thrown
    /\ queue = queueRef
    /\ executingWaypoints = executingWaypointsRef

\* An empty start while a queue executes: the queue stays.
C25_Witness ==
  /\ JustCalled("startExecution")
  /\ last.n = 0
  /\ queue # Null
  /\ queue[1].currentLegIndex = 1

(***************************************************************************)
(* Properties of the App (Spec).  app.legClock is the simulated time since *)
(* the active leg's departure burn, app.cancelled says that cancelExecution*)
(* has returned and startExecution has not created a queue since, and      *)
(* app.fired is the last transition checkLegTransition reported, with what *)
(* both were when it was called.                                           *)
(***************************************************************************)

\* C3: the elapsed time the App passes to checkLegTransition is the
\* simulated time since the active leg's departure burn, so a transition of
\* a queue that was not cancelled fires no earlier than transferTime seconds
\* after that burn.
C3_ElapsedIsTimeInLeg ==
  (app.fired # Null /\ ~app.fired[1].cancelled) =>
     /\ app.fired[1].newTime = app.fired[1].legClock
     /\ app.fired[1].legClock >= app.fired[1].transferTime

\* C4: a single-point maneuver config and an active maneuver queue are
\* never present at the same time.
C4_PlansMutuallyExclusive == ~(app.maneuverConfig # Null /\ queue # Null)

\* C6: once cancelExecution has returned, and until startExecution creates
\* a queue again, checkLegTransition reports no transition and the queue
\* stays absent.
C6_CancellationTotal ==
  /\ app.fired # Null => ~app.fired[1].cancelled
  /\ (app.cancelled /\ ~app.effectsPending) => queue = Null

====
